---- MODULE Spec2Model ----
(***************************************************************************)
(* Status ingestion, session expiry and webhook notification dispatch of   *)
(* kubeagents: WebhookHandler.processStatusReport over the in-memory       *)
(* store, MemoryStore.CheckExpiredSessions, NotificationManager.Notify /   *)
(* Shutdown and HTTPClient.Send.                                           *)
(*                                                                         *)
(* Time is counted in minutes for the store clock (time.Now) and in        *)
(* abstract units for the client-supplied report timestamps; 0 is the Go   *)
(* zero time (IsZero).  Stored objects are pointers in the Go code, so the *)
(* model keeps a heap (agentObj, sessObj) next to the maps (agents,        *)
(* sessions) that hold references into it.  The object allocated by the    *)
(* process p has the reference p.                                          *)
(***************************************************************************)
EXTENDS Integers, Sequences, FiniteSets, TLC

\* ---- bounds of the model ----
MaxProcs == 3
MaxInFlight == 2
MaxCallers == 2
MaxShutdowns == 2
MaxTicks == 2
MaxTimestamp == 2
StartClock == 100

\* ---- program constants ----
DefaultTTL == 30
MaxTTLMinutes == 1440
MaxAgentIDLen == 100
MaxNameLen == 200
MaxTopicLen == 500
MaxMessageLen == 1000
MaxContentLen == 10000
maxRetries == 3
baseBackoff == 100
backoffFactor == 2

Procs == 1..MaxProcs
Callers == {p \in Procs : p <= MaxCallers}
ShutdownCalls == 1..MaxShutdowns
NoObj == 0

AgentIDs == {"a1"}
Topics == {"t1", "t2"}
Users == {"u1", "u2"}
Names == {"", "bot"}
ValidStatuses == {"running", "success", "failed", "pending"}
Timestamps == 1..MaxTimestamp
ReportTTLs == {0, 1}
Messages == {""}
Contents == {""}
ClockSteps == {1, DefaultTTL}

VARIABLES
    clock, ticks, sweeps,
    agents, agentObj, sessions, sessObj, statuses,
    pc, sr, userID, now, history, previousStatus, startTimestamp, agent, session, result,
    hasNotifier, nmEnabled,
    nmShutdown, wg,
    ndata, nret, calledClosed, callerCtxDone,
    dpc, attempt, outcomes, waits, dTimedOut, dres,
    spc, sret, sctxDone, doneCh,
    fault,
    msg, payload

timeVars == <<clock, ticks, sweeps>>
storeVars == <<agents, agentObj, sessions, sessObj, statuses>>
locals == <<sr, userID, now, history, previousStatus, startTimestamp, agent, session>>
reqVars == <<locals, result>>
cfgVars == <<hasNotifier, nmEnabled>>
nmVars == <<nmShutdown, wg>>
callVars == <<ndata, nret, calledClosed, callerCtxDone>>
delivVars == <<dpc, attempt, outcomes, waits, dTimedOut, dres>>
shutVars == <<spc, sret, sctxDone, doneCh>>
vars == <<timeVars, storeVars, pc, reqVars, cfgVars, nmVars, callVars, delivVars, shutVars,
          fault, msg, payload>>

Key(a, t) == <<a, t>>
Keys == AgentIDs \X Topics

\* ---- records ----
NilAgent == [AgentID |-> "", UserID |-> "", Name |-> "", Registered |-> 0, LastSeen |-> 0]
NilSession == [AgentID |-> "", SessionTopic |-> "", Created |-> 0, LastUpdated |-> 0,
               Expired |-> FALSE, ExpiredAt |-> 0, TTLMinutes |-> 0]
NilReport == [AgentID |-> "", AgentName |-> "", SessionTopic |-> "", Status |-> "",
              Timestamp |-> 0, Message |-> "", Content |-> "", TTLMinutes |-> 0]
NilData == [AgentID |-> "", AgentName |-> "", SessionTopic |-> "", FromStatus |-> "",
            ToStatus |-> "", Timestamp |-> 0, Message |-> "", Content |-> "",
            Duration |-> 0]

\* ---- inputs ----
\* Reports a client can send.  The last three are rejected by Validate.
ValidReports ==
    [AgentID : AgentIDs, AgentName : Names, SessionTopic : Topics,
     Status : ValidStatuses, Timestamp : Timestamps, Message : Messages,
     Content : Contents, TTLMinutes : ReportTTLs]
InvalidReports ==
    { [AgentID |-> "a1", AgentName |-> "", SessionTopic |-> "t1", Status |-> "done",
       Timestamp |-> 1, Message |-> "", Content |-> "", TTLMinutes |-> 0],
      [AgentID |-> "a1", AgentName |-> "", SessionTopic |-> "t1", Status |-> "running",
       Timestamp |-> 0, Message |-> "", Content |-> "", TTLMinutes |-> 0],
      [AgentID |-> "a1", AgentName |-> "", SessionTopic |-> "t1", Status |-> "running",
       Timestamp |-> 1, Message |-> "", Content |-> "", TTLMinutes |-> 2000] }
Reports == ValidReports \cup InvalidReports

\* A Validate whose ttl_minutes test has no upper limit.
ValidateNoTTLLimit(rep) ==
    /\ rep.AgentID # ""
    /\ Len(rep.AgentID) <= MaxAgentIDLen
    /\ Len(rep.AgentName) <= MaxNameLen
    /\ rep.SessionTopic # ""
    /\ Len(rep.SessionTopic) <= MaxTopicLen
    /\ rep.Status \in ValidStatuses
    /\ rep.Timestamp # 0
    /\ Len(rep.Message) <= MaxMessageLen
    /\ Len(rep.Content) <= MaxContentLen
    /\ ~(rep.TTLMinutes < 0)

\* ---- pure functions ----
\* StatusReport.Validate: TRUE when the report is accepted.
Validate(rep) ==
    /\ rep.AgentID # ""
    /\ Len(rep.AgentID) <= MaxAgentIDLen
    /\ Len(rep.AgentName) <= MaxNameLen
    /\ rep.SessionTopic # ""
    /\ Len(rep.SessionTopic) <= MaxTopicLen
    /\ rep.Status \in ValidStatuses
    /\ rep.Timestamp # 0
    /\ Len(rep.Message) <= MaxMessageLen
    /\ Len(rep.Content) <= MaxContentLen
    /\ ~(rep.TTLMinutes < 0
         \/ (rep.TTLMinutes > 0 /\ (rep.TTLMinutes < 1 \/ rep.TTLMinutes > MaxTTLMinutes)))

\* Agent.Validate
AgentValidate(a) ==
    /\ a.AgentID # ""
    /\ Len(a.AgentID) <= MaxAgentIDLen
    /\ Len(a.Name) <= MaxNameLen
    /\ a.Registered # 0
    /\ a.LastSeen # 0

\* Session.Validate
SessionValidate(s) ==
    /\ s.AgentID # ""
    /\ s.SessionTopic # ""
    /\ Len(s.SessionTopic) <= MaxTopicLen
    /\ s.Created # 0
    /\ s.LastUpdated # 0
    /\ ~(s.LastUpdated < s.Created)
    /\ ~(s.TTLMinutes < 0 \/ s.TTLMinutes > MaxTTLMinutes)

\* AgentStatus.Validate
StatusValidate(st) ==
    /\ st.AgentID # ""
    /\ st.SessionTopic # ""
    /\ st.Status \in ValidStatuses
    /\ st.Timestamp # 0
    /\ Len(st.Message) <= MaxMessageLen
    /\ Len(st.Content) <= MaxContentLen

\* The loop "latest := history[0]; for s in hist: if s.Timestamp.After(latest.Timestamp)
\* then latest = s", run over history[i..] with the current latest.
RECURSIVE LatestFrom(_, _, _)
LatestFrom(hist, i, latest) ==
    IF i > Len(hist) THEN latest
    ELSE LatestFrom(hist, i + 1,
                    IF hist[i].Timestamp > latest.Timestamp THEN hist[i] ELSE latest)

\* A scan in which a later entry with an equal timestamp replaces the latest.
PreviousStatusOfLastWins(hist) ==
    IF Len(hist) > 0
    THEN hist[CHOOSE i \in 1..Len(hist) :
                 /\ \A j \in 1..Len(hist) : hist[j].Timestamp <= hist[i].Timestamp
                 /\ \A j \in (i + 1)..Len(hist) : hist[j].Timestamp < hist[i].Timestamp].Status
    ELSE ""

PreviousStatusOf(hist) ==
    IF Len(hist) > 0 THEN LatestFrom(hist, 1, hist[1]).Status ELSE ""

\* The loop that finds the earliest "running" timestamp; start = 0 is the zero time.
RECURSIVE RunningStartFrom(_, _, _)
RunningStartFrom(hist, i, start) ==
    IF i > Len(hist) THEN start
    ELSE RunningStartFrom(hist, i + 1,
                          IF hist[i].Status = "running"
                             /\ (start = 0 \/ hist[i].Timestamp < start)
                          THEN hist[i].Timestamp ELSE start)

\* A scan that keeps the latest 'running' timestamp instead of the earliest.
StartTimestampOfLatest(hist) ==
    LET ts == {hist[i].Timestamp : i \in {j \in 1..Len(hist) : hist[j].Status = "running"}}
    IN  IF ts = {} THEN 0 ELSE CHOOSE x \in ts : \A y \in ts : y <= x

StartTimestampOf(hist) ==
    IF Len(hist) > 0 THEN RunningStartFrom(hist, 1, 0) ELSE 0

\* A transition check that forgets the pending target.
ShouldNotifyNoPending(notifierSet, prev, status) ==
    notifierSet /\ prev = "running" /\ status \in {"success", "failed"}

\* The condition of the notification branch of processStatusReport.
ShouldNotify(notifierSet, prev, status) ==
    /\ notifierSet
    /\ prev = "running"
    /\ (status = "success" \/ status = "failed" \/ status = "pending")

\* duration := 0; if !startTimestamp.IsZero() { duration = sr.Timestamp.Sub(startTimestamp) }
DurationOf(ts, start) == IF start # 0 THEN ts - start ELSE 0

\* ttl of a session as the sweep reads it
SweepTTL(s) == IF s.TTLMinutes = 0 THEN DefaultTTL ELSE s.TTLMinutes

\* An expiry test that fires at the expiry time itself.
IsPastExpiryInclusive(s, t) == t >= s.LastUpdated + SweepTTL(s)

\* now.After(session.LastUpdated.Add(ttl minutes))
IsPastExpiry(s, t) == t > s.LastUpdated + SweepTTL(s)


\* ---- initial state ----
\* NewMemoryStore, NewNotificationManager, NewWebhookHandlerWithNotifier: empty maps,
\* no call in progress.
InitCommon ==
    /\ clock = StartClock /\ ticks = 0 /\ sweeps = 0
    /\ agents = [a \in AgentIDs |-> NoObj]
    /\ agentObj = [p \in Procs |-> NilAgent]
    /\ sessions = [k \in Keys |-> NoObj]
    /\ sessObj = [p \in Procs |-> NilSession]
    /\ statuses = [k \in Keys |-> <<>>]
    /\ pc = [p \in Procs |-> "idle"]
    /\ sr = [p \in Procs |-> NilReport]
    /\ userID = [p \in Procs |-> ""]
    /\ now = [p \in Procs |-> 0]
    /\ history = [p \in Procs |-> <<>>]
    /\ previousStatus = [p \in Procs |-> ""]
    /\ startTimestamp = [p \in Procs |-> 0]
    /\ agent = [p \in Procs |-> NoObj]
    /\ session = [p \in Procs |-> NoObj]
    /\ result = [p \in Procs |-> "none"]
    /\ nmShutdown = FALSE /\ wg = 0
    /\ ndata = [p \in Procs |-> NilData]
    /\ nret = [p \in Procs |-> "none"]
    /\ calledClosed = [p \in Procs |-> FALSE]
    /\ callerCtxDone = [p \in Procs |-> FALSE]
    /\ dpc = [p \in Procs |-> "none"]
    /\ attempt = [p \in Procs |-> 0]
    /\ outcomes = [p \in Procs |-> <<>>]
    /\ waits = [p \in Procs |-> <<>>]
    /\ dTimedOut = [p \in Procs |-> FALSE]
    /\ dres = [p \in Procs |-> "none"]
    /\ spc = [s \in ShutdownCalls |-> "idle"]
    /\ sret = [s \in ShutdownCalls |-> "none"]
    /\ sctxDone = [s \in ShutdownCalls |-> FALSE]
    /\ doneCh = [s \in ShutdownCalls |-> "none"]
    /\ fault = [p \in Procs |-> ""]
    /\ msg = [p \in Procs |-> <<>>]
    /\ payload = [p \in Procs |-> <<>>]

\* ---- the clock ----
Tick ==
    /\ ticks < MaxTicks
    /\ \E d \in ClockSteps : clock' = clock + d
    /\ ticks' = ticks + 1
    /\ UNCHANGED <<sweeps, fault, msg, payload, storeVars, pc, reqVars, cfgVars, nmVars, callVars,
                   delivVars, shutVars>>

\* ---- WebhookHandler.ServeHTTP / processStatusReport ----
\* Processes start in the order of their numbers (they are interchangeable before).
CanStart(r) == pc[r] = "idle" /\ \A q \in Procs : q < r => pc[q] # "idle"

InFlight == {q \in Procs : pc[q] \notin {"idle", "done"}}

\* The return of the handler: the result is set and the locals of the call are gone.
Finish(r, res) ==
    /\ pc' = [pc EXCEPT ![r] = "done"]
    /\ result' = [result EXCEPT ![r] = res]
    /\ sr' = [sr EXCEPT ![r] = NilReport]
    /\ userID' = [userID EXCEPT ![r] = ""]
    /\ now' = [now EXCEPT ![r] = 0]
    /\ history' = [history EXCEPT ![r] = <<>>]
    /\ previousStatus' = [previousStatus EXCEPT ![r] = ""]
    /\ startTimestamp' = [startTimestamp EXCEPT ![r] = 0]
    /\ agent' = [agent EXCEPT ![r] = NoObj]
    /\ session' = [session EXCEPT ![r] = NoObj]

\* ServeHTTP up to "now := time.Now()": decode, Validate (400 on failure, nothing else
\* happens), then processStatusReport begins.  reps and users are the reports and the
\* authenticated users the request is drawn from.
StartReportFrom(r, reps, users) ==
    /\ CanStart(r)
    /\ \E rep \in reps, u \in users :
         IF Validate(rep)
         THEN /\ sr' = [sr EXCEPT ![r] = rep]
              /\ userID' = [userID EXCEPT ![r] = u]
              /\ now' = [now EXCEPT ![r] = clock]
              /\ pc' = [pc EXCEPT ![r] = "history"]
              /\ UNCHANGED <<history, previousStatus, startTimestamp, agent, session,
                             result>>
         ELSE Finish(r, "bad_request")
    /\ UNCHANGED <<timeVars, fault, msg, payload, storeVars, cfgVars, nmVars, callVars, delivVars, shutVars>>

\* GetStatusHistory and the two scans over the returned slice.
ReadHistory(r) ==
    /\ pc[r] = "history"
    /\ LET h == statuses[Key(sr[r].AgentID, sr[r].SessionTopic)] IN
         /\ history' = [history EXCEPT ![r] = h]
         /\ previousStatus' = [previousStatus EXCEPT ![r] = PreviousStatusOf(h)]
         /\ startTimestamp' = [startTimestamp EXCEPT ![r] = StartTimestampOf(h)]
    /\ pc' = [pc EXCEPT ![r] = "getAgent"]
    /\ UNCHANGED <<timeVars, fault, msg, payload, storeVars, sr, userID, now, agent, session, result,
                   cfgVars, nmVars, callVars, delivVars, shutVars>>

\* GetAgent: not found -> a new Agent object owned by the caller; found -> the stored
\* pointer, rejected with ErrNotFound when it belongs to another user.
GetAgent(r) ==
    /\ pc[r] = "getAgent"
    /\ LET ptr == agents[sr[r].AgentID] IN
         IF ptr = NoObj
         THEN /\ agentObj' = [agentObj EXCEPT ![r] =
                     [AgentID |-> sr[r].AgentID, UserID |-> userID[r],
                      Name |-> sr[r].AgentName, Registered |-> now[r],
                      LastSeen |-> now[r]]]
              /\ agent' = [agent EXCEPT ![r] = r]
              /\ pc' = [pc EXCEPT ![r] = "putAgent"]
              /\ UNCHANGED <<sr, userID, now, history, previousStatus, startTimestamp,
                             session, result>>
         ELSE IF agentObj[ptr].UserID # userID[r]
         THEN /\ Finish(r, "ErrNotFound")
              /\ agentObj' = agentObj
         ELSE /\ agent' = [agent EXCEPT ![r] = ptr]
              /\ pc' = [pc EXCEPT ![r] = "mutAgent"]
              /\ UNCHANGED <<agentObj, sr, userID, now, history, previousStatus,
                             startTimestamp, session, result>>
    /\ UNCHANGED <<timeVars, fault, msg, payload, agents, sessions, sessObj, statuses,
                   cfgVars, nmVars, callVars, delivVars, shutVars>>

\* The writes through the stored pointer: agent.Name, agent.LastSeen = now
\* (made outside the store's lock).
MutateAgent(r) ==
    /\ pc[r] = "mutAgent"
    /\ agentObj' = [agentObj EXCEPT ![agent[r]] =
            [@ EXCEPT !.Name = IF sr[r].AgentName # "" THEN sr[r].AgentName ELSE @,
                      !.LastSeen = now[r]]]
    /\ pc' = [pc EXCEPT ![r] = "putAgent"]
    /\ UNCHANGED <<timeVars, fault, msg, payload, agents, sessions, sessObj, statuses, reqVars,
                   cfgVars, nmVars, callVars, delivVars, shutVars>>

\* MemoryStore.CreateOrUpdateAgent
CreateOrUpdateAgent(r) ==
    /\ pc[r] = "putAgent"
    /\ IF AgentValidate(agentObj[agent[r]])
       THEN /\ agents' = [agents EXCEPT ![sr[r].AgentID] = agent[r]]
            /\ pc' = [pc EXCEPT ![r] = "getSession"]
            /\ UNCHANGED reqVars
       ELSE /\ Finish(r, "error")
            /\ agents' = agents
    /\ UNCHANGED <<timeVars, fault, msg, payload, agentObj, sessions, sessObj, statuses,
                   cfgVars, nmVars, callVars, delivVars, shutVars>>

\* GetSession: not found -> a new Session object with the report's ttl or 30;
\* found -> the stored pointer.
GetSession(r) ==
    /\ pc[r] = "getSession"
    /\ LET ptr == sessions[Key(sr[r].AgentID, sr[r].SessionTopic)] IN
         IF ptr = NoObj
         THEN /\ sessObj' = [sessObj EXCEPT ![r] =
                     [AgentID |-> sr[r].AgentID, SessionTopic |-> sr[r].SessionTopic,
                      Created |-> now[r], LastUpdated |-> now[r], Expired |-> FALSE,
                      ExpiredAt |-> 0,
                      TTLMinutes |-> IF sr[r].TTLMinutes = 0 THEN DefaultTTL
                                     ELSE sr[r].TTLMinutes]]
              /\ session' = [session EXCEPT ![r] = r]
              /\ pc' = [pc EXCEPT ![r] = "putSession"]
         ELSE /\ session' = [session EXCEPT ![r] = ptr]
              /\ pc' = [pc EXCEPT ![r] = "mutSession"]
              /\ sessObj' = sessObj
    /\ UNCHANGED <<timeVars, fault, msg, payload, agents, agentObj, sessions, statuses, sr, userID, now,
                   history, previousStatus, startTimestamp, agent, result,
                   cfgVars, nmVars, callVars, delivVars, shutVars>>

\* An update that always takes the ttl_minutes of the report.
UpdatedTTLAlways(old, ttl) == ttl

\* if sr.TTLMinutes > 0 { session.TTLMinutes = sr.TTLMinutes }
UpdatedTTL(old, ttl) == IF ttl > 0 THEN ttl ELSE old

\* The writes through the stored pointer: session.LastUpdated = now and, for a
\* non-zero report ttl, session.TTLMinutes (made outside the store's lock).
MutateSession(r) ==
    /\ pc[r] = "mutSession"
    /\ sessObj' = [sessObj EXCEPT ![session[r]] =
            [@ EXCEPT !.LastUpdated = now[r],
                      !.TTLMinutes = UpdatedTTL(@, sr[r].TTLMinutes)]]
    /\ pc' = [pc EXCEPT ![r] = "putSession"]
    /\ UNCHANGED <<timeVars, fault, msg, payload, agents, agentObj, sessions, statuses, reqVars,
                   cfgVars, nmVars, callVars, delivVars, shutVars>>

\* MemoryStore.CreateOrUpdateSession: Session.Validate, the agent must exist.
CreateOrUpdateSession(r) ==
    /\ pc[r] = "putSession"
    /\ IF ~SessionValidate(sessObj[session[r]])
       THEN /\ Finish(r, "error")
            /\ sessions' = sessions
       ELSE IF agents[sessObj[session[r]].AgentID] = NoObj
       THEN /\ Finish(r, "ErrNotFound")
            /\ sessions' = sessions
       ELSE /\ sessions' = [sessions EXCEPT
                               ![Key(sr[r].AgentID, sr[r].SessionTopic)] = session[r]]
            /\ pc' = [pc EXCEPT ![r] = "addStatus"]
            /\ UNCHANGED reqVars
    /\ UNCHANGED <<timeVars, fault, msg, payload, agents, agentObj, sessObj, statuses,
                   cfgVars, nmVars, callVars, delivVars, shutVars>>

\* A row stamped with the server's clock instead of the report's timestamp.
NewAgentStatusServerTime(r) ==
    [AgentID |-> sr[r].AgentID, SessionTopic |-> sr[r].SessionTopic,
     Status |-> sr[r].Status, Timestamp |-> now[r],
     Message |-> sr[r].Message, Content |-> sr[r].Content]

\* The AgentStatus row processStatusReport builds from the report.
NewAgentStatus(r) ==
    [AgentID |-> sr[r].AgentID, SessionTopic |-> sr[r].SessionTopic,
     Status |-> sr[r].Status, Timestamp |-> sr[r].Timestamp,
     Message |-> sr[r].Message, Content |-> sr[r].Content]

\* A store that drops a row equal to one it already holds.
AppendStatusUnlessPresent(hist, st) ==
    IF \E i \in 1..Len(hist) : hist[i] = st THEN hist ELSE Append(hist, st)

\* A store that keeps the first row of a session and acknowledges the later ones
\* without keeping them.
AppendStatusFirstOnly(hist, st) == IF hist = <<>> THEN <<st>> ELSE hist

\* A store that keeps only the latest row of a session.
AppendStatusKeepsLatest(hist, st) == <<st>>

\* s.statuses[agent][topic] = append(s.statuses[agent][topic], status)
AppendStatus(hist, st) == Append(hist, st)

\* MemoryStore.AddStatus: AgentStatus.Validate, the session must exist, append.
AddStatus(r) ==
    /\ pc[r] = "addStatus"
    /\ LET k == Key(sr[r].AgentID, sr[r].SessionTopic)
           agentStatus == NewAgentStatus(r)
       IN IF ~StatusValidate(agentStatus)
          THEN /\ Finish(r, "error")
               /\ statuses' = statuses
          ELSE IF sessions[k] = NoObj
          THEN /\ Finish(r, "ErrNotFound")
               /\ statuses' = statuses
          ELSE /\ statuses' = [statuses EXCEPT ![k] = AppendStatus(@, agentStatus)]
               /\ pc' = [pc EXCEPT ![r] = "trigger"]
               /\ UNCHANGED reqVars
    /\ UNCHANGED <<timeVars, fault, msg, payload, agents, agentObj, sessions, sessObj,
                   cfgVars, nmVars, callVars, delivVars, shutVars>>

\* A handler that returns an error unless a delivery was started.
HandlerResultNeedsDelivery(r) == IF dpc[r] # "none" THEN "ok" ELSE "error"

\* What processStatusReport returns once the store calls have succeeded: the error of
\* Notify is logged, never returned.
HandlerResult(r) == "ok"

\* The transition check after AddStatus.  When it fires, NotificationData is built
\* (agent.Name is read through the agent pointer) and Notify is entered with
\* context.Background(); otherwise processStatusReport returns nil.
Trigger(r) ==
    /\ pc[r] = "trigger"
    /\ IF ShouldNotify(hasNotifier, previousStatus[r], sr[r].Status)
       THEN /\ ndata' = [ndata EXCEPT ![r] =
                   [AgentID |-> sr[r].AgentID, AgentName |-> agentObj[agent[r]].Name,
                    SessionTopic |-> sr[r].SessionTopic,
                    FromStatus |-> previousStatus[r], ToStatus |-> sr[r].Status,
                    Timestamp |-> sr[r].Timestamp, Message |-> sr[r].Message,
                    Content |-> sr[r].Content,
                    Duration |-> DurationOf(sr[r].Timestamp, startTimestamp[r])]]
            /\ calledClosed' = [calledClosed EXCEPT ![r] = ~nmEnabled \/ nmShutdown]
            /\ pc' = [pc EXCEPT ![r] = "notifyCheck"]
            /\ UNCHANGED reqVars
       ELSE /\ Finish(r, HandlerResult(r))
            /\ UNCHANGED <<ndata, calledClosed>>
    /\ UNCHANGED <<timeVars, fault, msg, payload, storeVars, cfgVars, nmVars, nret, callerCtxDone, delivVars,
                   shutVars>>

\* The return of processStatusReport after Notify has returned.
ReturnFromNotify(r) ==
    /\ pc[r] = "return"
    /\ sr[r] # NilReport
    /\ Finish(r, HandlerResult(r))
    /\ UNCHANGED <<timeVars, fault, msg, payload, storeVars, cfgVars, nmVars, callVars, delivVars, shutVars>>

\* A sweep without the "already expired" test.
SweepObjRestamps(s, t) ==
    IF IsPastExpiry(s, t) THEN [s EXCEPT !.Expired = TRUE, !.ExpiredAt = t] ELSE s

\* ---- MemoryStore.CheckExpiredSessions ----
\* One sweep, under the store's write lock from start to end: every session reachable
\* from the map that is not expired and past its expiry time is flipped.
SweepObj(s, t) ==
    IF ~s.Expired /\ IsPastExpiry(s, t)
    THEN [s EXCEPT !.Expired = TRUE, !.ExpiredAt = t]
    ELSE s

Stored == {sessions[k] : k \in Keys} \ {NoObj}

CheckExpiredSessions ==
    /\ sessObj' = [p \in Procs |->
                      IF p \in Stored THEN SweepObj(sessObj[p], clock) ELSE sessObj[p]]
    /\ sweeps' = 1 - sweeps
    /\ UNCHANGED <<clock, ticks, fault, msg, payload, agents, agentObj, sessions, statuses, pc, reqVars,
                   cfgVars, nmVars, callVars, delivVars, shutVars>>

\* ---- NotificationManager.Notify ----
\* A caller other than the webhook handler enters Notify with a context of its own.
NotifyData == { [NilData EXCEPT !.AgentID = "a1", !.SessionTopic = "t1",
                                !.FromStatus = "running", !.ToStatus = "success",
                                !.Timestamp = 1] }

NotifyCall(p) ==
    /\ CanStart(p)
    /\ \E d \in NotifyData : ndata' = [ndata EXCEPT ![p] = d]
    /\ calledClosed' = [calledClosed EXCEPT ![p] = ~nmEnabled \/ nmShutdown]
    /\ pc' = [pc EXCEPT ![p] = "notifyCheck"]
    /\ UNCHANGED <<timeVars, fault, msg, payload, storeVars, reqVars, cfgVars, nmVars, nret, callerCtxDone,
                   delivVars, shutVars>>

\* The caller's context is cancelled (or the request it belongs to completes).
CancelCallerCtx(p) ==
    /\ pc[p] \in {"notifyCheck", "notifyLaunch", "return"}
    /\ ~callerCtxDone[p]
    /\ callerCtxDone' = [callerCtxDone EXCEPT ![p] = TRUE]
    /\ UNCHANGED <<timeVars, fault, msg, payload, storeVars, pc, reqVars, cfgVars, nmVars, ndata, nret,
                   calledClosed, delivVars, shutVars>>

\* A Notify that does not look at the shutdown flag.
NotifySkipsFlagIgnored == ~nmEnabled

\* TRUE when Notify returns nil without launching: the manager is disabled, or the
\* shutdown flag (read under nm.mu) is set.
NotifySkips == ~nmEnabled \/ nmShutdown

NotifyCheck(p) ==
    /\ pc[p] = "notifyCheck"
    /\ IF NotifySkips
       THEN /\ nret' = [nret EXCEPT ![p] = "nil"]
            /\ pc' = [pc EXCEPT ![p] = "return"]
            /\ ndata' = [ndata EXCEPT ![p] = NilData]
       ELSE /\ pc' = [pc EXCEPT ![p] = "notifyLaunch"]
            /\ UNCHANGED <<nret, ndata>>
    /\ UNCHANGED <<timeVars, fault, msg, payload, storeVars, reqVars, cfgVars, nmVars, calledClosed,
                   callerCtxDone, delivVars, shutVars>>

\* json.Marshal of WebhookPayload (two string fields) has no failing input.
BuildPayloadFails(data) == FALSE

\* A delivery context derived from the caller's context.
NotifyCtxDoneFromCaller(p) == dTimedOut[p] \/ callerCtxDone[p]

\* The context of the delivery launched by the call p:
\* context.WithTimeout(context.Background(), 30s).
NotifyCtxDone(p) == dTimedOut[p]

\* A Notify that runs Send itself and has not returned while the POSTs are made.
PcAfterLaunchInline == "send"

\* Where the caller is once the goroutine is started: Notify returns.
PcAfterLaunch == "return"

\* After the unlock: BuildPayload, wg.Add(1), go func, return nil.  The payload goes
\* to the goroutine; the argument of the call is gone when Notify returns.
NotifyLaunch(p) ==
    /\ pc[p] = "notifyLaunch"
    /\ IF BuildPayloadFails(ndata[p])
       THEN /\ nret' = [nret EXCEPT ![p] = "error"]
            /\ UNCHANGED <<wg, dpc>>
       ELSE /\ wg' = wg + 1
            /\ dpc' = [dpc EXCEPT ![p] = "attempt"]
            /\ nret' = [nret EXCEPT ![p] = "nil"]
    /\ pc' = [pc EXCEPT ![p] = PcAfterLaunch]
    /\ ndata' = [ndata EXCEPT ![p] = NilData]
    /\ UNCHANGED <<timeVars, fault, msg, payload, storeVars, reqVars, cfgVars, nmShutdown, calledClosed,
                   callerCtxDone, attempt, outcomes, waits, dTimedOut, dres, shutVars>>

\* ---- the delivery goroutine: HTTPClient.Send, then wg.Done ----
\* What one POST can end in: a 2xx response, another response, or an error before any
\* response (the request could not be built or sent).
AttemptOutcomes == {"2xx", "non2xx", "error"}

RECURSIVE Pow(_, _)
Pow(b, e) == IF e <= 0 THEN 1 ELSE b * Pow(b, e - 1)

\* A delay computed from the loop variable itself instead of attempt-1.
BackoffDelayFromAttempt(a) == Pow(backoffFactor, a) * baseBackoff

\* time.Duration(math.Pow(backoffFactor, float64(attempt-1))) * baseBackoff, in ms
BackoffDelay(a) == Pow(backoffFactor, a - 1) * baseBackoff

\* A retry loop that runs one pass too many.
RetryAfterOffByOne(a) == a + 1 <= maxRetries

\* TRUE when the loop of Send goes on after a failed pass with loop variable a.
RetryAfter(a) == a + 1 < maxRetries

\* TRUE when the outcome of a POST ends Send with nil.
IsSuccess(o) == o = "2xx"

\* What the log of a delivery (outcomes) keeps of one POST.
OutcomeClass(o) == IF o = "2xx" THEN "2xx" ELSE "failed"

\* A goroutine that ends without nm.wg.Done().
WgDoneMissing(n) == n

\* defer nm.wg.Done(): the counter when the goroutine of a delivery ends.
WgDone(n) == n - 1

\* One pass of the loop body from the POST on.  With the delivery's context done the
\* request ends in an error.
Attempt(d) ==
    /\ dpc[d] = "attempt"
    /\ \E o \in (IF NotifyCtxDone(d) THEN {"error"} ELSE AttemptOutcomes) :
         /\ outcomes' = [outcomes EXCEPT ![d] = Append(@, OutcomeClass(o))]
         /\ IF IsSuccess(o)
            THEN /\ dres' = [dres EXCEPT ![d] = "nil"]
                 /\ dpc' = [dpc EXCEPT ![d] = "finished"]
                 /\ wg' = WgDone(wg)
                 /\ attempt' = attempt
            ELSE IF RetryAfter(attempt[d])
            THEN /\ attempt' = [attempt EXCEPT ![d] = @ + 1]
                 /\ dpc' = [dpc EXCEPT ![d] = "backoff"]
                 /\ UNCHANGED <<dres, wg>>
            ELSE /\ attempt' = [attempt EXCEPT ![d] = @ + 1]
                 /\ dres' = [dres EXCEPT ![d] = "max retries exceeded"]
                 /\ dpc' = [dpc EXCEPT ![d] = "finished"]
                 /\ wg' = WgDone(wg)
    /\ UNCHANGED <<timeVars, fault, msg, payload, storeVars, pc, reqVars, cfgVars, nmShutdown, callVars,
                   waits, dTimedOut, shutVars>>

\* A backoff made with time.Sleep: the context is not looked at while waiting.
BackoffAbortsNever(d) == FALSE

\* TRUE when the select of the backoff takes the case <-ctx.Done(): the context of the
\* delivery is done before the timer fires.
BackoffAborts(d) == NotifyCtxDone(d)

\* The select between time.After(backoff) and ctx.Done(): the first event wakes it.
Backoff(d) ==
    /\ dpc[d] = "backoff"
    /\ IF BackoffAborts(d)
       THEN /\ dres' = [dres EXCEPT ![d] = "context error"]
            /\ dpc' = [dpc EXCEPT ![d] = "finished"]
            /\ wg' = WgDone(wg)
            /\ waits' = waits
       ELSE /\ waits' = [waits EXCEPT ![d] = Append(@, BackoffDelay(attempt[d]))]
            /\ dpc' = [dpc EXCEPT ![d] = "attempt"]
            /\ UNCHANGED <<dres, wg>>
    /\ UNCHANGED <<timeVars, fault, msg, payload, storeVars, pc, reqVars, cfgVars, nmShutdown, callVars,
                   attempt, outcomes, dTimedOut, shutVars>>

\* The 30 s timeout of the delivery's context fires while the delivery runs.
DeliveryTimeout(d) ==
    /\ dpc[d] \in {"attempt", "backoff"}
    /\ ~dTimedOut[d]
    /\ dTimedOut' = [dTimedOut EXCEPT ![d] = TRUE]
    /\ UNCHANGED <<timeVars, fault, msg, payload, storeVars, pc, reqVars, cfgVars, nmVars, callVars,
                   dpc, attempt, outcomes, waits, dres, shutVars>>

\* ---- NotificationManager.Shutdown ----
CanShutdown(s) == spc[s] = "idle" /\ \A q \in ShutdownCalls : q < s => spc[q] # "idle"

\* A Shutdown without the early return.
AlreadyShutdownNeverChecked == FALSE

\* TRUE when Shutdown returns at once because the flag is already set.
AlreadyShutdown == nmShutdown

\* The locked part: return nil when already shut down, else set the flag; then the
\* waiter goroutine (wg.Wait; close(done)) is started.  The context given to the call
\* may already be done.
ShutdownBegin(s) ==
    /\ CanShutdown(s)
    /\ \E expired \in BOOLEAN : sctxDone' = [sctxDone EXCEPT ![s] = expired]
    /\ IF AlreadyShutdown
       THEN /\ spc' = [spc EXCEPT ![s] = "returned"]
            /\ sret' = [sret EXCEPT ![s] = "nil"]
            /\ UNCHANGED <<nmShutdown, doneCh>>
       ELSE /\ nmShutdown' = TRUE
            /\ doneCh' = [doneCh EXCEPT ![s] = "open"]
            /\ spc' = [spc EXCEPT ![s] = "wait"]
            /\ sret' = sret
    /\ UNCHANGED <<timeVars, fault, msg, payload, storeVars, pc, reqVars, cfgVars, wg, callVars, delivVars>>

\* The context given to Shutdown expires while the call waits.
ShutdownCtxExpire(s) ==
    /\ spc[s] = "wait"
    /\ ~sctxDone[s]
    /\ sctxDone' = [sctxDone EXCEPT ![s] = TRUE]
    /\ UNCHANGED <<timeVars, fault, msg, payload, storeVars, pc, reqVars, cfgVars, nmVars, callVars, delivVars,
                   spc, sret, doneCh>>

\* A wait that is over only once the counter has gone below zero.
WaitReturnsBelowZero(n) == n < 0

\* nm.wg.Wait() returns when the counter is zero.
WaitReturns(n) == n = 0

\* The waiter goroutine: wg.Wait() returns when the counter is zero, then close(done).
WaiterDone(s) ==
    /\ doneCh[s] = "open"
    /\ WaitReturns(wg)
    /\ doneCh' = [doneCh EXCEPT ![s] = "closed"]
    /\ UNCHANGED <<timeVars, fault, msg, payload, storeVars, pc, reqVars, cfgVars, nmVars, callVars, delivVars,
                   spc, sret, sctxDone>>

\* The select of Shutdown: a ready case is taken, either one when both are ready.
ShutdownReturn(s) ==
    /\ spc[s] = "wait"
    /\ \/ /\ doneCh[s] = "closed"
          /\ sret' = [sret EXCEPT ![s] = "nil"]
       \/ /\ sctxDone[s]
          /\ sret' = [sret EXCEPT ![s] = "shutdown timeout"]
    /\ spc' = [spc EXCEPT ![s] = "returned"]
    /\ UNCHANGED <<timeVars, fault, msg, payload, storeVars, pc, reqVars, cfgVars, nmVars, callVars, delivVars,
                   sctxDone, doneCh>>

\* ---- clients of the store other than the webhook handler ----
\* A client calls CreateOrUpdateAgent and then CreateOrUpdateSession with a Session of
\* its own making, as the store's tests do: times in the past, any ttl_minutes that
\* Session.Validate accepts (0 included), or a Session that Validate rejects.
ClientTTLs == {0, 1, DefaultTTL}
ClientAges == {0, 1, DefaultTTL, DefaultTTL + 1}

ClientPutAgent(p) ==
    /\ CanStart(p)
    /\ \E a \in AgentIDs :
         /\ agentObj' = [agentObj EXCEPT ![p] =
                [AgentID |-> a, UserID |-> "", Name |-> "", Registered |-> clock,
                 LastSeen |-> clock]]
         /\ agents' = [agents EXCEPT ![a] = p]
    /\ pc' = [pc EXCEPT ![p] = "client"]
    /\ UNCHANGED <<timeVars, fault, msg, payload, sessions, sessObj, statuses, reqVars, cfgVars, nmVars,
                   callVars, delivVars, shutVars>>

ClientPutSession(p) ==
    /\ pc[p] = "client"
    /\ \E a \in AgentIDs, t \in Topics, age \in ClientAges, ttl \in ClientTTLs,
          c \in {clock - 2 * DefaultTTL - 1, clock} :
         LET obj == [AgentID |-> a, SessionTopic |-> t, Created |-> c,
                     LastUpdated |-> clock - age, Expired |-> FALSE, ExpiredAt |-> 0,
                     TTLMinutes |-> ttl]
         IN IF ~SessionValidate(obj)
            THEN /\ result' = [result EXCEPT ![p] = "error"]
                 /\ UNCHANGED <<sessions, sessObj>>
            ELSE IF agents[a] = NoObj
            THEN /\ result' = [result EXCEPT ![p] = "ErrNotFound"]
                 /\ UNCHANGED <<sessions, sessObj>>
            ELSE /\ sessObj' = [sessObj EXCEPT ![p] = obj]
                 /\ sessions' = [sessions EXCEPT ![Key(a, t)] = p]
                 /\ result' = [result EXCEPT ![p] = "ok"]
    /\ pc' = [pc EXCEPT ![p] = "done"]
    /\ UNCHANGED <<timeVars, fault, msg, payload, agents, agentObj, statuses, locals, cfgVars, nmVars,
                   callVars, delivVars, shutVars>>

\* ---- specifications ----
Deliver == \E d \in Procs : Attempt(d) \/ Backoff(d) \/ DeliveryTimeout(d)

Shut == \E s \in ShutdownCalls :
            ShutdownBegin(s) \/ ShutdownCtxExpire(s) \/ WaiterDone(s) \/ ShutdownReturn(s)

\* The steps of a report after its start.
Process(r) ==
    \/ ReadHistory(r) \/ GetAgent(r) \/ MutateAgent(r) \/ CreateOrUpdateAgent(r)
    \/ GetSession(r) \/ MutateSession(r) \/ CreateOrUpdateSession(r) \/ AddStatus(r)
    \/ Trigger(r) \/ NotifyCheck(r) \/ NotifyLaunch(r) \/ ReturnFromNotify(r)

\* The server under concurrent load: at most MaxInFlight reports are processed at a
\* time, the sweep runs on its ticker, deliveries run in their goroutines.
ConcurrentReports ==
    {rep \in ValidReports : /\ rep.AgentName = ""
                            /\ rep.Status \in {"running", "success"}
                            /\ rep.Timestamp = 1}

StartReport(r) ==
    /\ Cardinality(InFlight) < MaxInFlight
    /\ StartReportFrom(r, ConcurrentReports, Users)

\* main.go: the handler always gets the manager; the manager is enabled when a
\* webhook URL is configured.
Init == InitCommon /\ hasNotifier = TRUE /\ nmEnabled \in BOOLEAN

Next ==
    \/ \E r \in Procs : StartReport(r) \/ Process(r)
    \/ Tick
    \/ CheckExpiredSessions
    \/ Deliver

Spec == Init /\ [][Next]_vars

\* Reports that arrive one after the other: a report starts when no other is being
\* processed.  Deliveries and Shutdown run beside them.
SeqReports ==
    {rep \in Reports : /\ rep.SessionTopic = "t1"
                       /\ rep.AgentName = ""
                       /\ rep.TTLMinutes \in {0, 2000}}

SeqStart(r) ==
    /\ InFlight = {}
    /\ StartReportFrom(r, SeqReports, Users)

NextSeq ==
    \/ \E r \in Procs : SeqStart(r) \/ Process(r)
    \/ Deliver

SpecSeq == Init /\ [][NextSeq]_vars

\* The store under its clients and the sweep.
NextStore ==
    \/ \E p \in Callers : ClientPutAgent(p) \/ ClientPutSession(p)
    \/ Tick
    \/ CheckExpiredSessions

InitStore == InitCommon /\ hasNotifier = TRUE /\ nmEnabled = FALSE

SpecStore == InitStore /\ [][NextStore]_vars

\* The dispatcher alone, with callers that pass contexts of their own.
NextNotifier ==
    \/ \E p \in Callers : NotifyCall(p) \/ CancelCallerCtx(p) \/ NotifyCheck(p)
                          \/ NotifyLaunch(p)
    \/ Deliver
    \/ Shut

SpecNotifier == Init /\ [][NextNotifier]_vars

\* ---- properties ----
\* The deliveries launched and not yet finished.
Running == {d \in Procs : dpc[d] \in {"attempt", "backoff"}}

\* The status of the previous entry as the specification words it: the entry of the
\* snapshot with the greatest timestamp, the first of them in stored order.
FirstMaxIndex(hist) ==
    CHOOSE i \in 1..Len(hist) :
        /\ \A j \in 1..Len(hist) : hist[j].Timestamp <= hist[i].Timestamp
        /\ \A j \in 1..(i - 1) : hist[j].Timestamp < hist[i].Timestamp

TransitionOutOfRunning(hist, status) ==
    /\ hist # <<>>
    /\ hist[FirstMaxIndex(hist)].Status = "running"
    /\ status \in {"success", "failed", "pending"}

\* The step on which processStatusReport returns for the report r.
Returns(r) == pc[r] \notin {"idle", "done"} /\ pc'[r] = "done"

\* C1 as stated: for every report processStatusReport handles, Notify has been invoked
\* (once) when it returns iff the latest entry of the history read before the append
\* is running and the new status is success, failed or pending.
C1_NotifyIffTransitionAnyReturn ==
    [][\A r \in Procs :
          Returns(r) =>
              ((nret[r] # "none") <=> TransitionOutOfRunning(history[r], sr[r].Status))
      ]_vars

\* C1 amended: the same equivalence for every report processStatusReport processes to
\* the end, that is, returns nil for.
C1_NotifyIffTransition ==
    [][\A r \in Procs :
          (Returns(r) /\ result'[r] = "ok") =>
              ((nret[r] # "none") <=> TransitionOutOfRunning(history[r], sr[r].Status))
      ]_vars

\* A report that leaves running is inside Notify.
C1_Witness ==
    \E r \in Procs : /\ pc[r] = "notifyCheck"
                     /\ TransitionOutOfRunning(history[r], sr[r].Status)
                     /\ sr[r].Status = "pending"

\* C2: whenever a Shutdown call that waited for the deliveries returns nil, no delivery
\* launched by Notify is still unfinished.
C2_NilShutdownMeansDrained ==
    [][\A s \in ShutdownCalls :
          (spc[s] = "wait" /\ spc'[s] = "returned" /\ sret'[s] = "nil")
              => Running = {}
      ]_vars

\* The outcomes of a finished or running Send.
AllFailed(d) == \A i \in 1..Len(outcomes[d]) : outcomes[d][i] = "failed"

\* C3: Send makes at most 3 POSTs, none after a 2xx response; it returns nil iff one
\* POST got a 2xx response, and "max retries exceeded" after three failed POSTs.
C3_SendAtMostThreePosts ==
    \A d \in Procs :
        /\ Len(outcomes[d]) <= 3
        /\ \A i \in 1..Len(outcomes[d]) : outcomes[d][i] = "2xx" => i = Len(outcomes[d])
        /\ (\E i \in 1..Len(outcomes[d]) : outcomes[d][i] = "2xx")
               => (dpc[d] = "finished" /\ dres[d] = "nil")
        /\ dres[d] = "nil" => \E i \in 1..Len(outcomes[d]) : outcomes[d][i] = "2xx"
        /\ (Len(outcomes[d]) = 3 /\ AllFailed(d))
               => (dpc[d] = "finished" /\ dres[d] = "max retries exceeded")

C3_Witness ==
    /\ \E d \in Procs : dres[d] = "max retries exceeded" /\ Len(outcomes[d]) = 3
    /\ \E d \in Procs : dres[d] = "nil" /\ Len(outcomes[d]) = 3

\* The store as processStatusReport left it is not touched.
StoreKept == UNCHANGED storeVars

\* C4: once the store calls of a report have succeeded, processStatusReport returns
\* success whatever Notify and the delivery do, and neither the rest of the handler
\* nor a delivery changes what was written to the store or the result reported.
C4_NotificationNeverFailsIngestion ==
    [][/\ \A r \in Procs :
             (pc[r] \in {"trigger", "notifyCheck", "notifyLaunch", "return"}
              /\ pc'[r] # pc[r])
                 => (StoreKept /\ (pc'[r] = "done" => result'[r] = "ok"))
       /\ (outcomes' # outcomes \/ dres' # dres) => (StoreKept /\ result' = result)
      ]_vars

\* A report accepted although every POST of its notification failed.
C4_Witness ==
    \E r \in Procs : /\ result[r] = "ok"
                     /\ dres[r] = "max retries exceeded"
                     /\ Len(statuses[Key("a1", "t1")]) >= 2

\* C5: a Notify call made on a disabled or shut-down dispatcher returns nil at once:
\* it starts no goroutine, makes no POST, and leaves the WaitGroup counter alone.
C5_ClosedNotifyIsNoOp ==
    /\ [](\A p \in Procs :
             calledClosed[p] => /\ pc[p] # "notifyLaunch"
                                /\ dpc[p] = "none"
                                /\ outcomes[p] = <<>>
                                /\ nret[p] \in {"none", "nil"}
                                /\ (pc[p] = "return" => nret[p] = "nil"))
    /\ [][\A p \in Procs : (calledClosed[p] /\ pc'[p] # pc[p]) => wg' = wg]_vars

\* A call made on an enabled dispatcher after the shutdown flag was set, returned.
C5_Witness ==
    \E p \in Procs : calledClosed[p] /\ nmEnabled /\ nmShutdown /\ pc[p] = "return"

\* TRUE while the call p of Notify has not returned.
InNotify(p) == pc[p] \notin {"idle", "return", "done"}

\* C6: Notify makes no POST and no backoff wait itself: none happens before it
\* returns, it can return before the first POST, and what it returned is never
\* changed by a POST or its outcome.
C6_NotifyDoesNotDeliver ==
    /\ [](\A p \in Procs : InNotify(p) => (outcomes[p] = <<>> /\ waits[p] = <<>>))
    /\ [][\A p \in Procs :
             /\ (outcomes'[p] # outcomes[p] \/ waits'[p] # waits[p] \/ dres'[p] # dres[p])
                    => (nret'[p] = nret[p] /\ pc'[p] = pc[p])
             /\ (pc[p] = "notifyLaunch" /\ pc'[p] # pc[p]) => ~InNotify(p)'
         ]_vars

\* Notify has returned nil and the first POST is still to come.
C6_Witness ==
    \E p \in Procs : /\ pc[p] = "return" /\ nret[p] = "nil"
                     /\ dpc[p] = "attempt" /\ outcomes[p] = <<>>

\* C7: cancelling the context given to Notify never ends the delivery's context; the
\* delivery's context ends only by its own timeout, and a delivery stops with a
\* context error only then.
C7_CallerContextIgnored ==
    /\ [](\A p \in Procs : /\ NotifyCtxDone(p) => dTimedOut[p]
                           /\ dres[p] = "context error" => dTimedOut[p])
    /\ [][\A p \in Procs :
             callerCtxDone'[p] # callerCtxDone[p]
                 => (NotifyCtxDone(p)' = NotifyCtxDone(p) /\ UNCHANGED delivVars)
         ]_vars

\* A delivery that goes on to its third POST with the caller's context cancelled.
C7_Witness ==
    \E p \in Procs : /\ callerCtxDone[p] /\ ~dTimedOut[p]
                     /\ dres[p] = "nil" /\ Len(outcomes[p]) = 3

\* C8: when the context of a waiting Shutdown call has expired and deliveries are in
\* flight, the call returns a non-nil error, and its return cancels no delivery.
C8_ShutdownTimeoutLeavesDeliveries ==
    [][\A s \in ShutdownCalls :
          (spc[s] = "wait" /\ spc'[s] = "returned")
              => /\ UNCHANGED delivVars
                 /\ (sctxDone[s] /\ Running # {}) => sret'[s] = "shutdown timeout"
      ]_vars

\* C9: a Shutdown call made when the flag is already set returns nil at once and
\* changes nothing of the dispatcher; a first call whose context is live returns nil.
C9_ShutdownIdempotent ==
    [][\A s \in ShutdownCalls :
          /\ (spc[s] = "idle" /\ spc'[s] # "idle" /\ nmShutdown)
                 => /\ spc'[s] = "returned"
                    /\ sret'[s] = "nil"
                    /\ UNCHANGED <<nmShutdown, wg, doneCh, delivVars>>
          /\ (spc[s] = "wait" /\ spc'[s] = "returned" /\ ~sctxDone[s])
                 => sret'[s] = "nil"
      ]_vars

\* Two calls in sequence with no delivery in flight, both returned nil.
C9_Witness ==
    /\ \A s \in ShutdownCalls : spc[s] = "returned" /\ sret[s] = "nil"
    /\ \A d \in Procs : dpc[d] = "none"

C11_SweepNeverUnflips ==
    [][sweeps' # sweeps =>
          \A p \in Procs :
              sessObj[p].Expired => (sessObj'[p].Expired
                                     /\ sessObj'[p].ExpiredAt = sessObj[p].ExpiredAt
                                     /\ sessObj'[p] = sessObj[p])
      ]_vars

\* Two stored sessions flipped by sweeps at different times: the later sweep ran over
\* the session the earlier one had flipped.
C11_Witness ==
    \E k1 \in Keys, k2 \in Keys :
        /\ sessions[k1] # NoObj /\ sessions[k2] # NoObj
        /\ sessObj[sessions[k1]].Expired /\ sessObj[sessions[k2]].Expired
        /\ sessObj[sessions[k1]].ExpiredAt < sessObj[sessions[k2]].ExpiredAt
        /\ sessObj[sessions[k2]].ExpiredAt = clock

\* ---- reports one at a time, with time passing and sweeps between them ----
TickBetween == InFlight = {} /\ Tick

SweepBetween == InFlight = {} /\ CheckExpiredSessions

NextLife ==
    \/ \E r \in Procs : SeqStart(r) \/ Process(r)
    \/ TickBetween
    \/ SweepBetween

SpecLife == Init /\ [][NextLife]_vars

\* The session object the store holds for the pair of the report r.
StoredSessionOf(r) == sessObj'[sessions'[Key(sr[r].AgentID, sr[r].SessionTopic)]]

\* C12: after a report is successfully processed for a session that a sweep had marked
\* expired, the session is no longer expired: when processStatusReport returns nil
\* the stored session of the report has expired = false.
C12_ReportRevivesSession ==
    [][\A r \in Procs :
          (Returns(r) /\ result'[r] = "ok") => ~StoredSessionOf(r).Expired
      ]_vars

\* TRUE when the report r found no agent, no session and no history for its pair:
\* the objects it upserts are the ones it made.
FreshPair(r) == history[r] = <<>> /\ agent[r] = r /\ session[r] = r

\* C13: for a pair with no prior agent, session or history, one successfully processed
\* report leaves one agent with that id, one session for the pair with expired =
\* false, and a history of exactly one row carrying the report's status and timestamp.
C13_FirstReportCreatesOneOfEach ==
    [][\A r \in Procs :
          (Returns(r) /\ result'[r] = "ok" /\ FreshPair(r)) =>
              LET k == Key(sr[r].AgentID, sr[r].SessionTopic) IN
                  /\ agents'[sr[r].AgentID] # NoObj
                  /\ agentObj'[agents'[sr[r].AgentID]].AgentID = sr[r].AgentID
                  /\ Cardinality({a \in AgentIDs : agents'[a] # NoObj}) = 1
                  /\ sessions'[k] # NoObj
                  /\ sessObj'[sessions'[k]].AgentID = sr[r].AgentID
                  /\ sessObj'[sessions'[k]].SessionTopic = sr[r].SessionTopic
                  /\ ~sessObj'[sessions'[k]].Expired
                  /\ Cardinality({q \in Keys : sessions'[q] # NoObj}) = 1
                  /\ Len(statuses'[k]) = 1
                  /\ statuses'[k][1].Status = sr[r].Status
                  /\ statuses'[k][1].Timestamp = sr[r].Timestamp
      ]_vars

\* The first report of a fresh pair has been processed.
C13_Witness ==
    \E r \in Procs :
        /\ result[r] = "ok"
        /\ Len(statuses[Key("a1", "t1")]) = 1
        /\ sessions[Key("a1", "t1")] = r
        /\ agents["a1"] = r
        /\ \A q \in Procs \ {r} : pc[q] = "idle"

\* The timestamps of the 'running' entries of a history.
RunningTimestamps(hist) ==
    {hist[i].Timestamp : i \in {j \in 1..Len(hist) : hist[j].Status = "running"}}

SetMin(S) == CHOOSE x \in S : \A y \in S : x <= y

SetMax(S) == CHOOSE x \in S : \A y \in S : y <= x

\* The step on which processStatusReport calls Notify for the report r.
Fires(r) == pc[r] = "trigger" /\ pc'[r] = "notifyCheck"

\* C14: the duration of a fired notification is the report's timestamp minus the
\* minimum timestamp among the 'running' entries of the history read before the
\* append, and zero when there is no such entry.
C14_DurationSinceEarliestRunning ==
    [][\A r \in Procs :
          Fires(r) =>
              ndata'[r].Duration =
                  IF RunningTimestamps(history[r]) = {} THEN 0
                  ELSE sr[r].Timestamp - SetMin(RunningTimestamps(history[r]))
      ]_vars

\* A notification for running at 1 followed by a report at 2: duration 1.
C14_Witness ==
    \E r \in Procs :
        /\ pc[r] = "notifyCheck"
        /\ Len(history[r]) = 2
        /\ history[r][1].Status = "running" /\ history[r][1].Timestamp = 1
        /\ history[r][2].Status = "running" /\ history[r][2].Timestamp = 2
        /\ sr[r].Timestamp = 2
        /\ ndata[r].Duration = 1

\* C15: the duration of a fired notification is the report's timestamp minus the
\* greatest timestamp among the earlier 'running' entries (the most recent prior
\* 'running' record), and zero if there is none.
C15_DurationSinceLatestRunning ==
    [][\A r \in Procs :
          Fires(r) =>
              ndata'[r].Duration =
                  IF RunningTimestamps(history[r]) = {} THEN 0
                  ELSE sr[r].Timestamp - SetMax(RunningTimestamps(history[r]))
      ]_vars

\* The step on which processStatusReport has read the history of the report r.
HistoryRead(r) == pc[r] = "history" /\ pc'[r] # "history"

\* C16: the previous status is the status of the entry with the maximum timestamp
\* among the entries read before the append, the first of them in the store's order
\* when several share the maximum, and is empty when the history is empty.
C16_PreviousStatusIsFirstLatest ==
    [][\A r \in Procs :
          HistoryRead(r) =>
              /\ history'[r] = statuses[Key(sr[r].AgentID, sr[r].SessionTopic)]
              /\ previousStatus'[r] =
                     IF history'[r] = <<>> THEN ""
                     ELSE history'[r][FirstMaxIndex(history'[r])].Status
      ]_vars

\* Two entries share the maximum timestamp and differ in status; the first one counts.
C16_Witness ==
    \E r \in Procs :
        /\ Len(history[r]) = 2
        /\ history[r][1].Timestamp = history[r][2].Timestamp
        /\ history[r][1].Status # history[r][2].Status
        /\ previousStatus[r] = history[r][1].Status

\* ---- reports at the limits of validation, one at a time ----
\* s repeated n times (Len counts what Go's len counts).
RECURSIVE Repeat(_, _)
Repeat(s, n) ==
    IF n = 0 THEN ""
    ELSE IF n % 2 = 0 THEN LET h == Repeat(s, n \div 2) IN h \o h
    ELSE s \o Repeat(s, n - 1)

BaseReport ==
    [AgentID |-> "a1", AgentName |-> "", SessionTopic |-> "t1", Status |-> "running",
     Timestamp |-> 1, Message |-> "", Content |-> "", TTLMinutes |-> 0]

\* Reports on and just inside the limits.
LimitReports ==
    { BaseReport,
      [BaseReport EXCEPT !.Status = "success"],
      [BaseReport EXCEPT !.AgentName = Repeat("n", MaxNameLen)],
      [BaseReport EXCEPT !.Message = Repeat("m", MaxMessageLen)],
      [BaseReport EXCEPT !.Content = Repeat("c", MaxContentLen)],
      [BaseReport EXCEPT !.TTLMinutes = 1],
      [BaseReport EXCEPT !.TTLMinutes = MaxTTLMinutes] }

\* Reports just outside the limits, one field each.
OffLimitReports ==
    { [BaseReport EXCEPT !.AgentID = ""],
      [BaseReport EXCEPT !.AgentID = Repeat("a", MaxAgentIDLen + 1)],
      [BaseReport EXCEPT !.AgentName = Repeat("n", MaxNameLen + 1)],
      [BaseReport EXCEPT !.SessionTopic = ""],
      [BaseReport EXCEPT !.SessionTopic = Repeat("t", MaxTopicLen + 1)],
      [BaseReport EXCEPT !.Status = ""],
      [BaseReport EXCEPT !.Status = "done"],
      [BaseReport EXCEPT !.Status = "Running"],
      [BaseReport EXCEPT !.Timestamp = 0],
      [BaseReport EXCEPT !.Message = Repeat("m", MaxMessageLen + 1)],
      [BaseReport EXCEPT !.Content = Repeat("c", MaxContentLen + 1)],
      [BaseReport EXCEPT !.TTLMinutes = 0 - 1],
      [BaseReport EXCEPT !.TTLMinutes = MaxTTLMinutes + 1] }

EdgeReports == LimitReports \cup OffLimitReports

EdgeStart(r) ==
    /\ InFlight = {}
    /\ StartReportFrom(r, EdgeReports, {"u1"})

NextValidate == \E r \in Procs : EdgeStart(r) \/ Process(r)

SpecValidate == Init /\ [][NextValidate]_vars

\* What the specification says validation rejects.
MustReject(rep) ==
    \/ rep.AgentID = "" \/ Len(rep.AgentID) > 100
    \/ rep.SessionTopic = "" \/ Len(rep.SessionTopic) > 500
    \/ rep.Status \notin {"running", "success", "failed", "pending"}
    \/ rep.Timestamp = 0
    \/ Len(rep.Message) > 1000
    \/ Len(rep.Content) > 10000
    \/ rep.TTLMinutes \notin ({0} \cup (1..1440))

\* C17: Validate rejects every report with an empty or over-long agent_id or
\* session_topic, a status outside the four values, a zero timestamp, an over-long
\* message or content, or a ttl_minutes outside {0} and 1..1440; no such report gets
\* into processStatusReport, and a rejected report changes neither the store nor the
\* dispatcher and fires no notification.
C17_ValidationRejects ==
    /\ [](\A rep \in EdgeReports \cup Reports : MustReject(rep) => ~Validate(rep))
    /\ [][\A r \in Procs :
             /\ (pc[r] = "idle" /\ pc'[r] = "history") => ~MustReject(sr'[r])
             /\ (pc[r] = "idle" /\ pc'[r] = "done")
                    => /\ result'[r] = "bad_request"
                       /\ UNCHANGED <<storeVars, nmVars, callVars, delivVars>>
         ]_vars

\* Two reports were rejected and one, on the limits, was accepted in between; the
\* store holds what the accepted one wrote and nothing else.
C17_Witness ==
    /\ result = <<"bad_request", "ok", "bad_request">>
    /\ Len(statuses[Key("a1", "t1")]) = 1
    /\ Len(statuses[Key("a1", "t1")][1].Content) = 10000
    /\ \A d \in Procs : dpc[d] = "none"
    /\ \E rep \in OffLimitReports : Len(rep.AgentID) = 101 /\ ~Validate(rep)

\* ---- store calls that fail ----
\* The handler works on the store.Store interface.  A call of PostgresStore returns an
\* error that is not ErrNotFound when its query fails ("failed to get status history",
\* "failed to get agent", ...).  fault[r] names the last call of the report r that
\* failed so; the handler's steps after the failure are those of processStatusReport.
FaultyCalls == {"GetStatusHistory", "GetAgent", "CreateOrUpdateAgent", "GetSession",
                "CreateOrUpdateSession", "AddStatus"}

\* history, _ := h.store.GetStatusHistory(...): the error is dropped, the history is nil.
ReadHistoryFails(r) ==
    /\ pc[r] = "history"
    /\ fault' = [fault EXCEPT ![r] = "GetStatusHistory"]
    /\ history' = [history EXCEPT ![r] = <<>>]
    /\ previousStatus' = [previousStatus EXCEPT ![r] = ""]
    /\ startTimestamp' = [startTimestamp EXCEPT ![r] = 0]
    /\ pc' = [pc EXCEPT ![r] = "getAgent"]
    /\ UNCHANGED <<timeVars, msg, payload, storeVars, sr, userID, now, agent, session, result,
                   cfgVars, nmVars, callVars, delivVars, shutVars>>

\* agent, err := h.store.GetAgent(...); if err != nil { agent = &models.Agent{...} }
GetAgentFails(r) ==
    /\ pc[r] = "getAgent"
    /\ fault' = [fault EXCEPT ![r] = "GetAgent"]
    /\ agentObj' = [agentObj EXCEPT ![r] =
           [AgentID |-> sr[r].AgentID, UserID |-> userID[r], Name |-> sr[r].AgentName,
            Registered |-> now[r], LastSeen |-> now[r]]]
    /\ agent' = [agent EXCEPT ![r] = r]
    /\ pc' = [pc EXCEPT ![r] = "putAgent"]
    /\ UNCHANGED <<timeVars, msg, payload, agents, sessions, sessObj, statuses, sr, userID, now,
                   history, previousStatus, startTimestamp, session, result,
                   cfgVars, nmVars, callVars, delivVars, shutVars>>

\* session, err := h.store.GetSession(...); if err != nil { session = &models.Session{...} }
GetSessionFails(r) ==
    /\ pc[r] = "getSession"
    /\ fault' = [fault EXCEPT ![r] = "GetSession"]
    /\ sessObj' = [sessObj EXCEPT ![r] =
           [AgentID |-> sr[r].AgentID, SessionTopic |-> sr[r].SessionTopic,
            Created |-> now[r], LastUpdated |-> now[r], Expired |-> FALSE,
            ExpiredAt |-> 0,
            TTLMinutes |-> IF sr[r].TTLMinutes = 0 THEN DefaultTTL ELSE sr[r].TTLMinutes]]
    /\ session' = [session EXCEPT ![r] = r]
    /\ pc' = [pc EXCEPT ![r] = "putSession"]
    /\ UNCHANGED <<timeVars, msg, payload, agents, agentObj, sessions, statuses, sr, userID, now,
                   history, previousStatus, startTimestamp, agent, result,
                   cfgVars, nmVars, callVars, delivVars, shutVars>>

\* if err := h.store.<write>(...); err != nil { return err }: the write did not happen.
WriteFails(r, at, call) ==
    /\ pc[r] = at
    /\ fault' = [fault EXCEPT ![r] = call]
    /\ Finish(r, "error")
    /\ UNCHANGED <<timeVars, msg, payload, storeVars, cfgVars, nmVars, callVars, delivVars, shutVars>>

StoreFails(r) ==
    \/ ReadHistoryFails(r)
    \/ GetAgentFails(r)
    \/ GetSessionFails(r)
    \/ WriteFails(r, "putAgent", "CreateOrUpdateAgent")
    \/ WriteFails(r, "putSession", "CreateOrUpdateSession")
    \/ WriteFails(r, "addStatus", "AddStatus")

\* Reports of one user on one session, one at a time.
FaultyStart(r) ==
    /\ InFlight = {}
    /\ StartReportFrom(r, {BaseReport, [BaseReport EXCEPT !.Status = "success"]}, {"u1"})

NextFaulty == \E r \in Procs : FaultyStart(r) \/ Process(r) \/ StoreFails(r)

SpecFaulty == Init /\ [][NextFaulty]_vars

\* C18: when a store call made while processing a report fails with an error that is
\* not not-found, processing stops at that call and processStatusReport returns an
\* error: the failing step is the return, with an error.
C18_StoreErrorAborts ==
    [][\A r \in Procs :
          fault'[r] # fault[r] => (pc'[r] = "done" /\ result'[r] = "error")
      ]_vars

\* TRUE when the sequence h is an initial part of the sequence g.
IsPrefix(h, g) == Len(h) <= Len(g) /\ \A i \in 1..Len(h) : g[i] = h[i]

StoreSteps(r) ==
    \/ ReadHistory(r) \/ GetAgent(r) \/ MutateAgent(r) \/ CreateOrUpdateAgent(r)
    \/ GetSession(r) \/ MutateSession(r) \/ CreateOrUpdateSession(r) \/ AddStatus(r)
    \/ Trigger(r)

RaceStart(r) ==
    /\ Cardinality(InFlight) < MaxInFlight
    /\ StartReportFrom(r, {BaseReport}, {"u1"})

NextRace ==
    \/ \E r \in Procs : RaceStart(r) \/ StoreSteps(r)
    \/ Tick
    \/ CheckExpiredSessions

SpecRace == InitStore /\ [][NextRace]_vars

\* C20: in every reachable state, under any interleaving of concurrently processed
\* reports and sweeps, every session held by the store has last_updated >= created.
C20_LastUpdatedNotBeforeCreated ==
    \A k \in Keys :
        sessions[k] # NoObj =>
            sessObj[sessions[k]].LastUpdated >= sessObj[sessions[k]].Created

\* C21: recency timestamps only advance: under any interleaving of processed reports,
\* no step moves the last_seen of the stored agent, or the last_updated of a stored
\* session, to a value earlier than the one the store held before the step.
C21_RecencyOnlyAdvances ==
    [][/\ \A a \in AgentIDs :
             (agents[a] # NoObj /\ agents'[a] # NoObj) =>
                 agentObj'[agents'[a]].LastSeen >= agentObj[agents[a]].LastSeen
       /\ \A k \in Keys :
             (sessions[k] # NoObj /\ sessions'[k] # NoObj) =>
                 sessObj'[sessions'[k]].LastUpdated >= sessObj[sessions[k]].LastUpdated
      ]_vars

\* C22: when the context of a delivery is done while Send waits in a backoff, the next
\* step of Send is its return with the context's error, and no POST is made by that
\* step or after it.
C22_BackoffAbortsOnContext ==
    [][\A d \in Procs :
          /\ (dpc[d] = "backoff" /\ NotifyCtxDone(d) /\ dpc'[d] # "backoff") =>
                 /\ dpc'[d] = "finished"
                 /\ dres'[d] = "context error"
                 /\ outcomes'[d] = outcomes[d]
          /\ dres[d] = "context error" =>
                 (outcomes'[d] = outcomes[d] /\ dres'[d] = dres[d])
      ]_vars

\* A delivery whose context expired during the first backoff: one POST, then the
\* context's error.
C22_Witness ==
    \E d \in Procs :
        /\ dpc[d] = "finished"
        /\ dres[d] = "context error"
        /\ dTimedOut[d]
        /\ Len(outcomes[d]) = 1
        /\ waits[d] = <<>>

\* C23: the waits of a delivery are 100 ms before the second attempt and 200 ms before
\* the third (100 ms x 2^(k-2) before attempt k); no wait precedes the first attempt
\* and none follows the last one.
C23_BackoffSchedule ==
    \A d \in Procs :
        /\ \A i \in 1..Len(waits[d]) : waits[d][i] = 100 * Pow(2, i - 1)
        /\ Len(waits[d]) <= maxRetries - 1
        /\ dpc[d] = "attempt" => Len(waits[d]) = Len(outcomes[d])
        /\ dpc[d] = "backoff" => Len(waits[d]) = Len(outcomes[d]) - 1
        /\ dpc[d] = "finished" => Len(waits[d]) = Len(outcomes[d]) - 1
        /\ dpc[d] = "none" => waits[d] = <<>>

\* A delivery that used all its attempts: the two waits were 100 ms and 200 ms.
C23_Witness ==
    \E d \in Procs :
        /\ dpc[d] = "finished"
        /\ dres[d] = "max retries exceeded"
        /\ Len(outcomes[d]) = 3
        /\ waits[d] = <<100, 200>>

\* ---- reports with every kind of ttl_minutes, one at a time ----
TTLReports ==
    { [BaseReport EXCEPT !.TTLMinutes = t] :
          t \in {0 - 1, 0, 1, MaxTTLMinutes, MaxTTLMinutes + 1} }

TTLStart(r) ==
    /\ InFlight = {}
    /\ StartReportFrom(r, TTLReports, {"u1"})

NextTTL ==
    \/ \E r \in Procs : TTLStart(r) \/ StoreSteps(r)
    \/ TickBetween
    \/ SweepBetween

SpecTTL == InitStore /\ [][NextTTL]_vars

IngestReports == { [BaseReport EXCEPT !.SessionTopic = t] : t \in Topics }

IngestStart(r) ==
    /\ Cardinality(InFlight) < MaxInFlight
    /\ StartReportFrom(r, IngestReports, {"u1"})

NextIngest ==
    \/ \E r \in Procs : IngestStart(r) \/ StoreSteps(r)
    \/ Tick

SpecIngest == InitStore /\ [][NextIngest]_vars

\* The reports whose AddStatus has succeeded: those at the transition check and those
\* that have returned nil.
Appended == {r \in Procs : pc[r] = "trigger" \/ result[r] = "ok"}

RECURSIVE TotalRows(_)
TotalRows(K) ==
    IF K = {} THEN 0
    ELSE LET k == CHOOSE x \in K : TRUE IN Len(statuses[k]) + TotalRows(K \ {k})

\* TRUE when the step is the successful AddStatus of r on the session k.
AddsRowTo(r, k) ==
    /\ pc[r] = "addStatus" /\ pc'[r] = "trigger"
    /\ Key(sr[r].AgentID, sr[r].SessionTopic) = k

\* C25: concurrent ingestion loses nothing: under any interleaving of concurrently
\* processed valid reports of one agent, no report dereferences a missing object, a
\* session with a stored row exists and stays, the session of an accepted report
\* exists when it returns, and each history holds exactly one row per report whose
\* AddStatus succeeded on it (all accepted reports are among these).
C25_ConcurrentIngestionLosesNothing ==
    /\ [](/\ \A r \in Procs :
               /\ pc[r] \in {"mutAgent", "putAgent"} => agent[r] # NoObj
               /\ pc[r] \in {"mutSession", "putSession"} => session[r] # NoObj
               /\ result[r] = "ok" => pc[r] = "done"
          /\ \A k \in Keys : statuses[k] # <<>> => sessions[k] # NoObj
          /\ TotalRows(Keys) = Cardinality(Appended))
    /\ [][/\ \A k \in Keys :
                /\ Len(statuses'[k]) =
                       Len(statuses[k]) + Cardinality({r \in Procs : AddsRowTo(r, k)})
                /\ IsPrefix(statuses[k], statuses'[k])
                /\ sessions[k] # NoObj => sessions'[k] # NoObj
          /\ \A r \in Procs :
                (Returns(r) /\ result'[r] = "ok") =>
                    LET k == Key(sr[r].AgentID, sr[r].SessionTopic) IN
                        /\ pc[r] = "trigger"
                        /\ sessions'[k] # NoObj
                        /\ \E i \in 1..Len(statuses'[k]) :
                               statuses'[k][i] = NewAgentStatus(r)
         ]_vars

\* Two reports for a1/t1 were in flight together and both are past AddStatus, a third
\* report for a1/t2 was accepted: two sessions, two rows and one row.
C25_Witness ==
    /\ \E r, q \in Procs :
          /\ r # q
          /\ pc[r] = "trigger" /\ pc[q] = "trigger"
          /\ sr[r].SessionTopic = "t1" /\ sr[q].SessionTopic = "t1"
    /\ \E p \in Procs : result[p] = "ok"
    /\ Len(statuses[Key("a1", "t1")]) = 2
    /\ Len(statuses[Key("a1", "t2")]) = 1
    /\ sessions[Key("a1", "t1")] # NoObj
    /\ sessions[Key("a1", "t2")] # NoObj

\* The sessions a step of the sweep marks expired.
Flipped == {p \in Procs : ~sessObj[p].Expired /\ sessObj'[p].Expired}

\* C26: the sweep holds no lock across the whole scan: a step of the sweep that
\* excludes the store operations of reports (one critical section of the store's
\* lock) handles one session, so that an operation of a report can take effect
\* between the handling of one session and the handling of the next.
C26_SweepLocksOneSessionAtATime ==
    [][sweeps' # sweeps => Cardinality(Flipped) <= 1]_vars

\* ---- concurrent reports on two sessions, with time passing and sweeps ----
NextScan ==
    \/ \E r \in Procs : IngestStart(r) \/ StoreSteps(r)
    \/ Tick
    \/ CheckExpiredSessions

SpecScan == InitStore /\ [][NextScan]_vars

\* ---- FormatMessage and BuildPayload ----
\* A text is a sequence of pieces: the characters that matter to the layout and to the
\* JSON encoding ("LF" line feed, "QUOTE" double quote, "BSLASH" backslash), "x" for
\* any other character, and whole words where the program writes whole words (a label
\* with its colon and space, " -> " for the arrow between the two statuses).
MaxTextLen == 2

Pieces == {"x", "LF", "QUOTE", "BSLASH", "Message: ", "Content: "}

Texts == UNION { [1..n -> Pieces] : n \in 0..MaxTextLen }

\* The NotificationData a caller can pass: message and content are any text.
FormatData ==
    { [AgentID |-> <<"a1">>, AgentName |-> n, SessionTopic |-> <<"t1">>,
       FromStatus |-> <<"running">>, ToStatus |-> <<s>>, Timestamp |-> 1,
       Message |-> m, Content |-> c, Duration |-> 0] :
          n \in {<<>>, <<"bot">>}, s \in {"success", "failed"}, m \in Texts,
          c \in Texts }

\* data.Timestamp.Format(time.RFC3339) and data.Duration.String(): digits and letters.
FormatRFC3339(t) == <<ToString(t)>>

DurationString(d) == <<ToString(d), "s">>

\* The seven lines of the fmt.Sprintf (the header is followed by an empty line).
FormatFixed(data) ==
    <<"HEADER", "LF", "LF", "Agent ID: ">> \o data.AgentID
        \o <<"LF", "Agent Name: ">> \o data.AgentName
        \o <<"LF", "Session: ">> \o data.SessionTopic
        \o <<"LF", "Status: ">> \o data.FromStatus \o <<" -> ">> \o data.ToStatus
        \o <<"LF", "Timestamp: ">> \o FormatRFC3339(data.Timestamp)
        \o <<"LF", "Duration: ">> \o DurationString(data.Duration)

\* A FormatMessage that writes the two optional lines whatever the fields hold.
FormatMessageAlwaysAppends(data) ==
    FormatFixed(data) \o <<"LF", "Message: ">> \o data.Message
                      \o <<"LF", "Content: ">> \o data.Content

\* FormatMessage
FormatMessage(data) ==
    FormatFixed(data)
        \o (IF data.Message # <<>> THEN <<"LF", "Message: ">> \o data.Message ELSE <<>>)
        \o (IF data.Content # <<>> THEN <<"LF", "Content: ">> \o data.Content ELSE <<>>)

\* An encoder that copies every character as it is.
EscapePieceRaw(c) == <<c>>

\* encoding/json, string encoding of one character.
EscapePiece(c) ==
    CASE c = "QUOTE" -> <<"BSLASH", "QUOTE">>
      [] c = "BSLASH" -> <<"BSLASH", "BSLASH">>
      [] c = "LF" -> <<"BSLASH", "n">>
      [] OTHER -> <<c>>

RECURSIVE Escape(_)
Escape(t) == IF t = <<>> THEN <<>> ELSE EscapePiece(Head(t)) \o Escape(Tail(t))

JSONString(t) == <<"QUOTE">> \o Escape(t) \o <<"QUOTE">>

\* BuildPayload: json.Marshal(WebhookPayload{MsgType: "text",
\* Content: WebhookContent{Text: FormatMessage(data)}})
BuildPayload(data) ==
    <<"{">> \o JSONString(<<"msg_type">>) \o <<":">> \o JSONString(<<"text">>)
        \o <<",">> \o JSONString(<<"content">>) \o <<":", "{">>
        \o JSONString(<<"text">>) \o <<":">> \o JSONString(FormatMessage(data))
        \o <<"}", "}">>

\* encoding/json, decoding of a document made of objects and strings.  A result is
\* [ok, val, next]: val is the text of a string or, for an object, the function from
\* its keys to their values; next is the position after the value.
ParseFail == [ok |-> FALSE, val |-> <<>>, next |-> 0]

RECURSIVE ScanString(_, _, _)
ScanString(b, j, acc) ==
    IF j > Len(b) THEN ParseFail
    ELSE IF b[j] = "QUOTE" THEN [ok |-> TRUE, val |-> acc, next |-> j + 1]
    ELSE IF b[j] = "LF" THEN ParseFail
    ELSE IF b[j] = "BSLASH"
    THEN IF j + 1 > Len(b) THEN ParseFail
         ELSE IF b[j + 1] = "QUOTE" THEN ScanString(b, j + 2, Append(acc, "QUOTE"))
         ELSE IF b[j + 1] = "BSLASH" THEN ScanString(b, j + 2, Append(acc, "BSLASH"))
         ELSE IF b[j + 1] = "n" THEN ScanString(b, j + 2, Append(acc, "LF"))
         ELSE ParseFail
    ELSE ScanString(b, j + 1, Append(acc, b[j]))

ParseString(b, i) ==
    IF i <= Len(b) /\ b[i] = "QUOTE" THEN ScanString(b, i + 1, <<>>) ELSE ParseFail

RECURSIVE ParseValue(_, _)
RECURSIVE ParseMembers(_, _, _)
ParseMembers(b, j, acc) ==
    LET k == ParseString(b, j) IN
    IF ~k.ok \/ k.next > Len(b) THEN ParseFail
    ELSE IF b[k.next] # ":" THEN ParseFail
    ELSE LET v == ParseValue(b, k.next + 1) IN
         IF ~v.ok \/ v.next > Len(b) THEN ParseFail
         ELSE IF b[v.next] = ","
         THEN ParseMembers(b, v.next + 1, (k.val :> v.val) @@ acc)
         ELSE IF b[v.next] = "}"
         THEN [ok |-> TRUE, val |-> (k.val :> v.val) @@ acc, next |-> v.next + 1]
         ELSE ParseFail

ParseObject(b, i) ==
    IF i + 1 > Len(b) \/ b[i] # "{" THEN ParseFail
    ELSE IF b[i + 1] = "}" THEN [ok |-> TRUE, val |-> <<>>, next |-> i + 2]
    ELSE ParseMembers(b, i + 1, <<>>)

ParseValue(b, i) ==
    IF i > Len(b) THEN ParseFail
    ELSE IF b[i] = "QUOTE" THEN ParseString(b, i)
    ELSE IF b[i] = "{" THEN ParseObject(b, i)
    ELSE ParseFail

\* json.Unmarshal of a whole document.
Unmarshal(b) ==
    LET r == ParseValue(b, 1) IN
    IF r.ok /\ r.next = Len(b) + 1 THEN r ELSE ParseFail

\* A caller (Notify, or a test) applies FormatMessage or BuildPayload to its data, then
\* drops the result.
FormatMessageCall(p) ==
    /\ CanStart(p)
    /\ InFlight = {}
    /\ \E d \in FormatData :
         /\ ndata' = [ndata EXCEPT ![p] = d]
         /\ msg' = [msg EXCEPT ![p] = FormatMessage(d)]
    /\ pc' = [pc EXCEPT ![p] = "formatted"]
    /\ UNCHANGED <<timeVars, fault, payload, storeVars, reqVars, cfgVars, nmVars, nret,
                   calledClosed, callerCtxDone, delivVars, shutVars>>

BuildPayloadCall(p) ==
    /\ CanStart(p)
    /\ InFlight = {}
    /\ \E d \in FormatData :
         /\ ndata' = [ndata EXCEPT ![p] = d]
         /\ payload' = [payload EXCEPT ![p] = BuildPayload(d)]
    /\ pc' = [pc EXCEPT ![p] = "built"]
    /\ UNCHANGED <<timeVars, fault, msg, storeVars, reqVars, cfgVars, nmVars, nret,
                   calledClosed, callerCtxDone, delivVars, shutVars>>

DropResult(p) ==
    /\ pc[p] \in {"formatted", "built"}
    /\ pc' = [pc EXCEPT ![p] = "done"]
    /\ ndata' = [ndata EXCEPT ![p] = NilData]
    /\ msg' = [msg EXCEPT ![p] = <<>>]
    /\ payload' = [payload EXCEPT ![p] = <<>>]
    /\ UNCHANGED <<timeVars, fault, storeVars, reqVars, cfgVars, nmVars, nret,
                   calledClosed, callerCtxDone, delivVars, shutVars>>

NextFormat == \E p \in Procs : FormatMessageCall(p) \/ BuildPayloadCall(p) \/ DropResult(p)

SpecFormat == InitStore /\ [][NextFormat]_vars

\* TRUE when the text has a line that begins with the label.
HasLine(text, label) ==
    \E i \in 1..Len(text) : text[i] = label /\ (i = 1 \/ text[i - 1] = "LF")

\* The lines of a text.
RECURSIVE SplitLines(_, _, _)
SplitLines(text, i, line) ==
    IF i > Len(text) THEN <<line>>
    ELSE IF text[i] = "LF" THEN <<line>> \o SplitLines(text, i + 1, <<>>)
    ELSE SplitLines(text, i + 1, Append(line, text[i]))

\* TRUE when the lines of want occur among the lines of got, in the order of want.
RECURSIVE InOrder(_, _)
InOrder(want, got) ==
    IF want = <<>> THEN TRUE
    ELSE IF got = <<>> THEN FALSE
    ELSE IF Head(want) = Head(got) THEN InOrder(Tail(want), Tail(got))
    ELSE InOrder(want, Tail(got))

\* The lines every message must have, when the fields in them hold no line feed.
FixedLines(data) ==
    << <<"HEADER">>,
       <<"Agent ID: ">> \o data.AgentID,
       <<"Agent Name: ">> \o data.AgentName,
       <<"Session: ">> \o data.SessionTopic,
       <<"Status: ">> \o data.FromStatus \o <<" -> ">> \o data.ToStatus,
       <<"Timestamp: ", "1">>,
       <<"Duration: ", "0", "s">> >>

HasLineFeed(text) == \E i \in 1..Len(text) : text[i] = "LF"

IsInfix(s, t) ==
    \E i \in 0..(Len(t) - Len(s)) : \A j \in 1..Len(s) : t[i + j] = s[j]

\* C28: BuildPayload returns, without error, a JSON object whose only top-level keys
\* are msg_type, with value "text", and content, whose only key text holds
\* FormatMessage(data); that text contains the agent id and '<from> -> <to>'; decoding
\* the bytes gives back exactly this structure.
C28_PayloadRoundTrips ==
    \A p \in Procs :
        pc[p] = "built" =>
            LET d == ndata[p]
                r == Unmarshal(payload[p])
            IN /\ ~BuildPayloadFails(d)
               /\ r.ok
               /\ DOMAIN r.val = {<<"msg_type">>, <<"content">>}
               /\ r.val[<<"msg_type">>] = <<"text">>
               /\ DOMAIN r.val[<<"content">>] = {<<"text">>}
               /\ r.val[<<"content">>][<<"text">>] = FormatMessage(d)
               /\ IsInfix(d.AgentID, r.val[<<"content">>][<<"text">>])
               /\ IsInfix(d.FromStatus \o <<" -> ">> \o d.ToStatus,
                          r.val[<<"content">>][<<"text">>])

\* A payload built from data whose content holds a double quote and a line feed.
C28_Witness ==
    \E p \in Procs :
        /\ pc[p] = "built"
        /\ ndata[p].Content = <<"QUOTE", "LF">>
        /\ ndata[p].Message = <<"BSLASH">>
        /\ Unmarshal(payload[p]).ok
        /\ Len(payload[p]) > Len(FormatMessage(ndata[p])) + 20

\* C29: Notify's check of the shut-down flag and its registration of the new delivery
\* are atomic with respect to Shutdown: once the flag is set, no step increments the
\* outstanding-work count and no step launches a delivery.
C29_NoLaunchAfterShutdownFlag ==
    [][nmShutdown =>
          /\ wg' <= wg
          /\ \A d \in Procs : dpc[d] = "none" => dpc'[d] = "none"
      ]_vars

\* C30: with a store that never fails, every report that passed validation and comes
\* from the agent's owner is accepted, however the steps of other reports for the same
\* session interleave with it: whenever processStatusReport returns, it returns nil.
C30_ValidOwnerReportAccepted ==
    [][\A r \in Procs :
          (Returns(r) /\ Validate(sr[r]) /\
           (agents[sr[r].AgentID] # NoObj =>
                agentObj[agents[sr[r].AgentID]].UserID = userID[r])) =>
              result'[r] = "ok"
      ]_vars

\* TRUE when Notify has been entered for the report handled by r (it is inside Notify,
\* or Notify has returned to it).
NotifyCalledFor(r) ==
    pc[r] \in {"notifyCheck", "notifyLaunch", "return"} \/ nret[r] # "none"

\* C31: a notification is handed to the dispatcher only after the agent upsert, the
\* session upsert and the status append of the report have succeeded: a report whose
\* processing returned an error has caused no Notify call, and in the step that enters
\* Notify the agent and the session of the report are stored and the report's row is
\* in the session's history.
C31_NotifyOnlyAfterStoreSucceeded ==
    /\ [](\A r \in Procs :
             /\ result[r] \notin {"none", "ok"} =>
                    (nret[r] = "none" /\ dpc[r] = "none" /\ ndata[r] = NilData)
             /\ pc[r] \in {"history", "getAgent", "mutAgent", "putAgent", "getSession",
                           "mutSession", "putSession", "addStatus"} =>
                    ~NotifyCalledFor(r))
    /\ [][\A r \in Procs :
             /\ Fires(r) =>
                    LET k == Key(sr[r].AgentID, sr[r].SessionTopic) IN
                        /\ agents[sr[r].AgentID] # NoObj
                        /\ sessions[k] # NoObj
                        /\ \E i \in 1..Len(statuses[k]) :
                               statuses[k][i] = NewAgentStatus(r)
                        /\ Len(statuses[k]) > Len(history[r])
             /\ (Returns(r) /\ result'[r] # "ok") => ~NotifyCalledFor(r)
         ]_vars

\* One report was refused by a failing write and caused no Notify call; a later one went
\* through the three writes and has entered Notify.
C31_Witness ==
    \E r, q \in Procs :
        /\ result[q] = "error" /\ fault[q] = "AddStatus" /\ nret[q] = "none"
        /\ pc[r] = "notifyCheck"
        /\ Len(statuses[Key("a1", "t1")]) = 2

\* C32: the outstanding-work count always equals the number of deliveries launched by
\* Notify and not yet finished; a step adds one per delivery it launches and takes one
\* per delivery it ends (2xx, retries exhausted or context error); the count is never
\* negative.
C32_CountEqualsUnfinishedDeliveries ==
    /\ [](wg = Cardinality(Running) /\ wg >= 0)
    /\ [][wg' = wg
              + Cardinality({d \in Procs : dpc[d] = "none" /\ dpc'[d] # "none"})
              - Cardinality({d \in Procs : dpc[d] # "finished" /\ dpc'[d] = "finished"})
         ]_vars

\* Two deliveries are running, one of them in a backoff: the count is two.
C32_Witness ==
    /\ wg = 2
    /\ Cardinality(Running) = 2
    /\ \E d \in Procs : dpc[d] = "backoff"

\* ---- the dispatcher with its goroutines scheduled ----
\* Every goroutine that can take a step is eventually run: a POST that was started
\* returns, a backoff ends, a caller inside Notify goes on, the waiter of Shutdown and
\* the select of Shutdown are run.  Nothing is assumed about contexts expiring.
FairNotifier ==
    /\ \A d \in Procs : WF_vars(Attempt(d)) /\ WF_vars(Backoff(d))
    /\ \A p \in Callers : WF_vars(NotifyCheck(p)) /\ WF_vars(NotifyLaunch(p))
    /\ \A s \in ShutdownCalls : WF_vars(WaiterDone(s)) /\ WF_vars(ShutdownReturn(s))

SpecNotifierLive == Init /\ [][NextNotifier]_vars /\ FairNotifier

\* C33: when each POST eventually returns, every delivery launched by Notify
\* eventually finishes, and a Shutdown call that waits eventually returns nil unless
\* its context expires.
C33_DeliveriesFinishAndShutdownReturns ==
    /\ \A d \in Procs : (dpc[d] \in {"attempt", "backoff"}) ~> (dpc[d] = "finished")
    /\ \A s \in ShutdownCalls :
           (spc[s] = "wait") ~>
               (sctxDone[s] \/ (spc[s] = "returned" /\ sret[s] = "nil"))

\* A Shutdown call whose context did not expire returned nil after a delivery had used
\* all its attempts.
C33_Witness ==
    \E s \in ShutdownCalls, d \in Procs :
        /\ spc[s] = "returned" /\ sret[s] = "nil" /\ ~sctxDone[s]
        /\ doneCh[s] = "closed"
        /\ dpc[d] = "finished" /\ dres[d] = "max retries exceeded"

\* ---- PostgresStore.CheckExpiredSessions ----
\* WHERE expired = false AND last_updated + (ttl_minutes || ' minutes')::interval < $1
PgIsPastExpiry(s, t) == s.LastUpdated + s.TTLMinutes < t

\* UPDATE sessions SET expired = true, expired_at = $1 WHERE ...
PgSweepObj(s, t) ==
    IF ~s.Expired /\ PgIsPastExpiry(s, t)
    THEN [s EXCEPT !.Expired = TRUE, !.ExpiredAt = t]
    ELSE s

\* The stored sessions the UPDATE of PostgresStore marks expired, run on the sessions
\* and at the time of the sweep.
PgFlipped == {p \in Stored : ~sessObj[p].Expired /\ PgSweepObj(sessObj[p], clock).Expired}

\* C34: the in-memory and the PostgreSQL CheckExpiredSessions expire exactly the same
\* sessions for the same stored sessions and the same current time, a ttl_minutes of 0
\* counting as 30 minutes in both.
C34_SweepsExpireTheSameSessions ==
    [][sweeps' # sweeps => Flipped = PgFlipped]_vars

\* ---- concurrent reports of two users for one agent ----
OwnerStart(r) ==
    /\ Cardinality(InFlight) < MaxInFlight
    /\ StartReportFrom(r, {BaseReport}, Users)

NextOwners == \E r \in Procs : OwnerStart(r) \/ StoreSteps(r)

SpecOwners == InitStore /\ [][NextOwners]_vars

\* C35: the owner of an agent never changes: once an agent is stored with a user_id,
\* every later state has it stored with the same user_id, under any interleaving of
\* reports of any users; and no report of another user stores a session or a history
\* row under that agent.
C35_OwnerNeverChanges ==
    [][/\ \A a \in AgentIDs :
             agents[a] # NoObj =>
                 /\ agents'[a] # NoObj
                 /\ agentObj'[agents'[a]].UserID = agentObj[agents[a]].UserID
       /\ \A r \in Procs :
             (\/ pc[r] = "putSession" /\ pc'[r] = "addStatus"
              \/ pc[r] = "addStatus" /\ pc'[r] = "trigger") =>
                 agentObj[agents[sr[r].AgentID]].UserID = userID[r]
      ]_vars

\* C36: in every state reached through processed reports and sweeps a stored session
\* has expired = true exactly when its expired_at is set (0 stands for the nil
\* pointer), and an expired_at that is set is not changed by any later step.
C36_ExpiredIffExpiredAt ==
    /\ [](\A k \in Keys :
             sessions[k] # NoObj =>
                 (sessObj[sessions[k]].Expired <=> sessObj[sessions[k]].ExpiredAt # 0))
    /\ [][\A k \in Keys :
             (sessions[k] # NoObj /\ sessObj[sessions[k]].ExpiredAt # 0) =>
                 /\ sessions'[k] # NoObj
                 /\ sessObj'[sessions'[k]].ExpiredAt = sessObj[sessions[k]].ExpiredAt
         ]_vars

\* The Agent objects reachable from the store's map.
StoredAgents == {agents[a] : a \in AgentIDs} \ {NoObj}

\* TRUE when the step is made with the store's write lock held: a sweep, or the map
\* update of CreateOrUpdateAgent, CreateOrUpdateSession or AddStatus.
UnderWriteLock ==
    \/ sweeps' # sweeps
    \/ agents' # agents
    \/ sessions' # sessions
    \/ statuses' # statuses

\* C37: every write to a field of an Agent or Session object reachable from the maps
\* of the in-memory store is made while the store's write lock is held: a step that
\* changes a field of a stored object is a step under the write lock.
C37_StoredFieldsWrittenUnderLock ==
    [][(\/ \E p \in StoredAgents : agentObj'[p] # agentObj[p]
        \/ \E p \in Stored : sessObj'[p] # sessObj[p]) => UnderWriteLock
      ]_vars

\* ---- the session-detail query over the in-memory store ----
\* The rearrangements of a history.
Rearrangements(h) ==
    { [i \in 1..Len(h) |-> h[f[i]]] :
        f \in {g \in [1..Len(h) -> 1..Len(h)] : \A i, j \in 1..Len(h) : i # j => g[i] # g[j]} }

\* The orders sort.Slice can leave the slice in: newest first, entries of equal
\* timestamp in any order.
SortedNewestFirst(h) ==
    { t \in Rearrangements(h) :
        \A i, j \in 1..Len(t) : i < j => t[i].Timestamp >= t[j].Timestamp }

\* AgentHandler.GetSession: GetSession finds the session, GetStatusHistory hands out
\* the stored slice, and sort.Slice orders that slice in place.
GetSessionDetail(k) ==
    /\ sessions[k] # NoObj
    /\ \E t \in SortedNewestFirst(statuses[k]) :
         statuses' = [statuses EXCEPT ![k] = t]
    /\ UNCHANGED <<timeVars, fault, msg, payload, agents, agentObj, sessions, sessObj,
                   pc, reqVars, cfgVars, nmVars, callVars, delivVars, shutVars>>

\* Reports of one session that differ in their timestamp.
DetailReports == { [BaseReport EXCEPT !.Timestamp = t] : t \in Timestamps }

DetailStart(r) ==
    /\ Cardinality(InFlight) < MaxInFlight
    /\ StartReportFrom(r, DetailReports, {"u1"})

NextDetail ==
    \/ \E r \in Procs : DetailStart(r) \/ StoreSteps(r)
    \/ \E k \in Keys : GetSessionDetail(k)

SpecDetail == InitStore /\ [][NextDetail]_vars

\* C38: serving the session-detail query changes nothing in the store: the stored
\* sequence of a session's history entries, order included, is the same after the
\* query as before it.
C38_DetailQueryLeavesHistory ==
    [][\A k \in Keys : GetSessionDetail(k) => statuses'[k] = statuses[k]]_vars

\* C39: every notification handed to Notify carries a duration that is greater than
\* or equal to zero, whatever the timestamps and the arrival order of the reports.
C39_DurationNeverNegative ==
    [][\A r \in Procs : Fires(r) => ndata'[r].Duration >= 0]_vars

====
